---- MODULE Spec2Model ----
(***************************************************************************)
(* Lifecycle controller of the Block Explorer module (zkcli-block-explorer) *)
(* as a state machine.  The controller is src/unnamed/part_001, lines       *)
(* 1-288: SetupModule with isInstalled / install / start / stop / clean /   *)
(* update / isRunning / getLogs / version / getLatestVersion.               *)
(*                                                                         *)
(* Granularity: the code is single-threaded async JavaScript.  One action   *)
(* is either the call of a method together with the synchronous code up to  *)
(* its first await, or the completion of an awaited external call together  *)
(* with the synchronous code up to the next await.  pc names the external   *)
(* call the controller is awaiting.                                         *)
(*                                                                         *)
(* Environment: the host's node descriptor and the remote's release tag     *)
(* change between any two steps; the host process can end between calls.    *)
(* The container orchestrator is assumed reachable: its queries succeed and *)
(* a command fails only when it has work to do.                             *)
(***************************************************************************)
EXTENDS Integers, Sequences, FiniteSets, TLC

\* ------------------------------------------------------------------ bounds
NumReleases == 2

\* Longest version compared, in components.
MaxComponents == 3

\* Blocks the node mines at most while the controller is observed.
MaxHeight == 2

\* --------------------------------------------------------------- constants
Undefined == "undefined"

REPO_URL == "matter-labs/block-explorer"

DOCKER_DATABASE_VOLUME_NAME == "postgres"

PackageName == "zkcli-block-explorer"

DefaultRpcPort == "3050"

\* Release tags of the upstream repository, oldest first.
VersionTags == <<"v2.40.0", "v2.41.0", "v2.42.0", "v2.43.0">>

Tag(n) == VersionTags[n]

\* NodeInfo["l2"] values the host can be configured with.  An rpcUrl is the
\* sequence of its ":"-separated pieces with the separators kept.
UrlLocal3050 == <<"http", ":", "//localhost", ":", "3050">>

UrlLocal8011 == <<"http", ":", "//localhost", ":", "8011">>

Networks ==
    { [chainId |-> 270, rpcUrl |-> UrlLocal3050],
      [chainId |-> 270, rpcUrl |-> UrlLocal8011],
      [chainId |-> 260, rpcUrl |-> UrlLocal3050] }

\* An RPC URL that names no port, and one that ends with the separator.
UrlHostOnly == <<"http", ":", "//localhost">>

UrlTrailingColon == <<"http", ":", "//localhost", ":">>

\* What the host's node module may report as the L2 network
\* (part_001:74-77): rpcUrl is any string.
RpcNetworks ==
    Networks \cup { [chainId |-> 270, rpcUrl |-> UrlHostOnly],
                    [chainId |-> 270, rpcUrl |-> UrlTrailingColon] }

\* moduleConfig.l2Network when the key is absent.
NoNetwork == [chainId |-> 0, rpcUrl |-> <<>>]

Services == {"app", "worker", "api", "postgres"}

CleanedServices == {"worker", "api", "postgres"}

\* Docker volume names, as token sequences (substring tests work on tokens).
fullDatabaseName == <<PackageName, "_", DOCKER_DATABASE_VOLUME_NAME>>

BackupVolume == <<PackageName, "_", DOCKER_DATABASE_VOLUME_NAME, "_backup">>

OtherVolume == <<"other-project", "_", DOCKER_DATABASE_VOLUME_NAME>>

VolumeOrder == <<BackupVolume, OtherVolume, fullDatabaseName>>

ForeignVolumes == {BackupVolume, OtherVolume}

\* ----------------------------------------------------------------- helpers
\* JavaScript truthiness of an optional string (!x is true for undefined, "").
Falsy(s) == s \in {Undefined, ""}

\* haystack.includes(needle) on token sequences.
Includes(hay, needle) ==
    \E i \in 0..(Len(hay) - Len(needle)) :
        \A j \in 1..Len(needle) : hay[i + j] = needle[j]

\* Output of `docker volume ls`: one line per existing volume.
RECURSIVE VolumeLines(_, _)
VolumeLines(vols, i) ==
    IF i > Len(VolumeOrder) THEN <<>>
    ELSE (IF VolumeOrder[i] \in vols
            THEN <<"local", " ">> \o VolumeOrder[i] \o <<"\n">>
            ELSE <<>>) \o VolumeLines(vols, i + 1)

VolumeLs(vols) == <<"DRIVER", " ", "VOLUME NAME", "\n">> \o VolumeLines(vols, 1)

\* Results of a completed call of the controller.
NoResult == [kind |-> "none", val |-> "", err |-> <<>>]

Ok(v) == [kind |-> "ok", val |-> v, err |-> <<>>]

Throws(e) == [kind |-> "throws", val |-> "", err |-> e]

Bool(b) == IF b THEN "true" ELSE "false"

\* Error messages, as token sequences.
ErrNodeInfo == <<"Failed to read node info">>

ErrRelease == <<"Failed to fetch latest release version">>

ErrCommand == <<"Command exited with code 1">>

ErrFetch == <<"fetch failed">>

\* A container runtime refusal, as docker reports it on stderr.
ErrCommandNotPermitted ==
    <<"Command exited with code 1: ", "operation not permitted", ": unknown">>

\* How docker.compose.create can fail.
CreateErrors == {ErrCommand, ErrCommandNotPermitted}

ErrEPERM == <<"EPERM: ", "operation not permitted", ", open">>

ErrENOSPC == <<"ENOSPC: no space left on device, write">>

FsErrors == {ErrEPERM, ErrENOSPC}

ErrNotEnoughPermissions ==
    <<"Not enough permissions to create necessary files. Please run console in administrator mode and try again.">>

\* `${error}` of an Error object.
ErrorToString(e) == <<"Error: ">> \o e

\* ------------------------------------------------------------------- state
VARIABLES
    moduleConfig,    \* persisted ModuleConfig {version?, l2Network?}
    latestVersion,   \* module-level cache `let latestVersion`
    nodeInfoL2,      \* the host's configHandler.getNodeInfo().l2
    remoteTag,       \* index of the remote's latest release tag
    containers,      \* orchestrator: service -> absent/created/running/exited
    volumes,         \* orchestrator: existing named volumes
    inflight,        \* services whose `docker compose rm` has not returned yet
    files,           \* the module's data directory
    nodeHeight,      \* latest block of the L2 node
    apiHeight,       \* latest block indexed by the explorer API
    op,              \* the method called last
    pc,              \* "idle", "done", or the awaited external call
    l2Network,       \* local of install / isInstalled / waitForFullIndexing
    version,         \* local of install
    apiLatestBlockNumber, \* local of waitForFullIndexing
    result,          \* result of the last completed call
    calls,           \* what the current call did so far, in order
    atCall,          \* moduleConfig and latestVersion when the call was made
    prev,            \* the call made before the current one, see Begin
    installed,       \* the version the last successful install() saved
    repoCloned,      \* whether the local clone of the upstream repository exists
    localRepo,       \* name of the latest tag of the local clone, <<>> when none
    components1,     \* the integers of the first version to compare
    components2,     \* the integers of the second version to compare
    compared         \* what compareSemanticVersions returned for them

vars == << moduleConfig, latestVersion, nodeInfoL2, remoteTag, containers,
           volumes, inflight, files, nodeHeight, apiHeight,
           op, pc, l2Network, version, apiLatestBlockNumber, result, calls,
           atCall, prev, installed,
           repoCloned, localRepo, components1, components2, compared >>

repoVars == << repoCloned, localRepo >>

libVars == << components1, components2, compared >>

hostVars == << nodeInfoL2, remoteTag, nodeHeight, repoVars, libVars >>

dockerVars == << containers, volumes, inflight, apiHeight >>

localVars == << l2Network, version, apiLatestBlockNumber >>

EmptyConfig == [version |-> Undefined, l2Network |-> NoNetwork]

NoFiles == [dir |-> FALSE, compose |-> FALSE,
            env |-> [VERSION |-> Undefined, RPC_PORT |-> Undefined]]

Snapshot(cfg, cached) == [cfg |-> cfg, cached |-> cached]

\* compareSemanticVersions has not been called.
NotCompared == 2

\* No local clone, no comparison asked for.
InitUnused ==
    /\ repoCloned = FALSE
    /\ localRepo = <<>>
    /\ components1 = <<>>
    /\ components2 = <<>>
    /\ compared = NotCompared

InitController ==
    /\ latestVersion = Undefined
    /\ nodeInfoL2 \in Networks
    /\ remoteTag = 1
    /\ containers = [s \in Services |-> "absent"]
    /\ volumes = {}
    /\ inflight = {}
    /\ files = NoFiles
    /\ nodeHeight = 0
    /\ apiHeight = 0
    /\ op = "none"
    /\ pc = "idle"
    /\ l2Network = NoNetwork
    /\ version = Undefined
    /\ apiLatestBlockNumber = 0
    /\ result = NoResult
    /\ calls = <<>>
    /\ atCall = Snapshot(moduleConfig, Undefined)
    /\ prev = "none"
    /\ installed = Undefined

InitRest == InitController /\ InitUnused

\* A fresh installation: nothing persisted.
Init ==
    /\ moduleConfig = EmptyConfig
    /\ InitRest

\* The persisted record was left by something else than this controller (its
\* keys are optional, part_001:18-21): one key only.
LegacyConfigs ==
    { [version |-> Tag(1), l2Network |-> NoNetwork],
      [version |-> Undefined, l2Network |-> [chainId |-> 270, rpcUrl |-> UrlLocal3050]] }

InitLegacy ==
    /\ moduleConfig \in LegacyConfigs
    /\ InitRest

\* ------------------------------------------------------- calling a method
Callable == pc \in {"idle", "done"}

\* The host calls method o.  prev names the last call before this one that
\* was not isInstalled, when it was an install, stop or clean that returned.
Begin(o) ==
    /\ Callable
    /\ op' = o
    /\ atCall' = Snapshot(moduleConfig, latestVersion)
    /\ prev' = IF pc = "idle" THEN "none"
               ELSE IF op = "isInstalled" THEN prev
               ELSE IF op \in {"install", "stop", "clean"} /\ result.kind = "ok" THEN op
               ELSE "other"

Running(o, label) == op \in o /\ pc = label

\* The call goes on to await the external call `label`.
Await(label, cs) ==
    /\ pc' = label
    /\ result' = NoResult
    /\ calls' = cs

\* The call returns r or throws; its locals go out of scope.
Return(r, cs) ==
    /\ pc' = "done"
    /\ result' = r
    /\ calls' = cs
    /\ l2Network' = NoNetwork
    /\ version' = Undefined
    /\ apiLatestBlockNumber' = 0

\* The call returns r keeping its locals readable (isInstalled: the network it
\* resolved).
ReturnKeep(r, cs) ==
    /\ pc' = "done"
    /\ result' = r
    /\ calls' = cs

frame == << op, atCall, prev, installed >>


\* ------------------------------------------------------------ isInstalled
\* docker.compose.status(file): the containers of the stack that exist.
ComposeStatus == {s \in Services : containers[s] # "absent"}

\* Mutant: only the stored version is required.
IsInstalledVersionOnly ==
    /\ Begin("isInstalled")
    /\ IF Falsy(moduleConfig.version)
         THEN Return(Ok(Bool(FALSE)), <<>>)
         ELSE /\ Await("ii_getNodeInfo", <<"getNodeInfo">>)
              /\ l2Network' = NoNetwork
              /\ version' = Undefined
              /\ apiLatestBlockNumber' = 0
    /\ UNCHANGED << moduleConfig, latestVersion, hostVars, dockerVars, files, installed >>

\* part_001:83-89, up to `await this.getL2Network()`.
IsInstalled ==
    /\ Begin("isInstalled")
    /\ IF Falsy(moduleConfig.version) \/ moduleConfig.l2Network = NoNetwork
         THEN Return(Ok(Bool(FALSE)), <<>>)
         ELSE /\ Await("ii_getNodeInfo", <<"getNodeInfo">>)
              /\ l2Network' = NoNetwork
              /\ version' = Undefined
              /\ apiLatestBlockNumber' = 0
    /\ UNCHANGED << moduleConfig, latestVersion, hostVars, dockerVars, files, installed >>

\* Mutant: only the chain ids are compared.
IsInstalledNodeInfoChainOnly ==
    /\ Running({"isInstalled"}, "ii_getNodeInfo")
    /\ \E ok \in BOOLEAN :
         IF ~ok
           THEN Return(Throws(ErrNodeInfo), calls)
           ELSE /\ l2Network' = nodeInfoL2
                /\ UNCHANGED << version, apiLatestBlockNumber >>
                /\ IF nodeInfoL2.chainId # moduleConfig.l2Network.chainId
                     THEN ReturnKeep(Ok(Bool(FALSE)), calls)
                     ELSE Await("ii_status", Append(calls, "status"))
    /\ UNCHANGED << moduleConfig, latestVersion, hostVars, dockerVars, files, frame >>

\* part_001:88-94: the node descriptor arrives and is compared with the stored
\* one; when they agree docker.compose.status is issued.
IsInstalledNodeInfo ==
    /\ Running({"isInstalled"}, "ii_getNodeInfo")
    /\ \E ok \in BOOLEAN :
         IF ~ok
           THEN Return(Throws(ErrNodeInfo), calls)
           ELSE /\ l2Network' = nodeInfoL2
                /\ UNCHANGED << version, apiLatestBlockNumber >>
                /\ IF nodeInfoL2.chainId # moduleConfig.l2Network.chainId
                      \/ nodeInfoL2.rpcUrl # moduleConfig.l2Network.rpcUrl
                     THEN ReturnKeep(Ok(Bool(FALSE)), calls)
                     ELSE Await("ii_status", Append(calls, "status"))
    /\ UNCHANGED << moduleConfig, latestVersion, hostVars, dockerVars, files, frame >>

\* Mutant: a running service is required, as in isRunning().
IsInstalledStatusRunning ==
    /\ Running({"isInstalled"}, "ii_status")
    /\ ReturnKeep(Ok(Bool(\E s \in ComposeStatus : containers[s] = "running")), calls)
    /\ UNCHANGED << moduleConfig, latestVersion, hostVars, dockerVars, files,
                    localVars, frame >>

\* part_001:94: the status list arrives.
IsInstalledStatus ==
    /\ Running({"isInstalled"}, "ii_status")
    /\ ReturnKeep(Ok(Bool(ComposeStatus # {})), calls)
    /\ UNCHANGED << moduleConfig, latestVersion, hostVars, dockerVars, files,
                    localVars, frame >>

\* ---------------------------------------------------------------- version
\* part_001:172-174, the `version` accessor (synchronous).
Version ==
    /\ Begin("version")
    /\ Return(Ok(moduleConfig.version), <<>>)
    /\ UNCHANGED << moduleConfig, latestVersion, hostVars, dockerVars, files, installed >>

\* ----------------------------------------------------------------- install
\* Mutant: only an error that is itself the permission failure is replaced,
\* not one that carries its text.
InstallCatchUnwrappedOnly(e) ==
    IF e = ErrEPERM
      THEN ErrNotEnoughPermissions
      ELSE e

\* part_001:152-158, the catch of install(): a permission failure is replaced
\* by a fixed message, every other error is rethrown.
InstallCatch(e) ==
    IF Includes(ErrorToString(e), <<"operation not permitted">>)
      THEN ErrNotEnoughPermissions
      ELSE e

\* part_001:133: l2Network.rpcUrl.split(":").at(-1) || "3050".
RpcPort(rpcUrl) ==
    LET last == IF Len(rpcUrl) = 0 \/ rpcUrl[Len(rpcUrl)] = ":"
                  THEN ""
                  ELSE rpcUrl[Len(rpcUrl)]
    IN  IF last = "" THEN DefaultRpcPort ELSE last

\* Where the synchronous file provisioning of install() can fail, and how.
FsOutcomes ==
    {[at |-> "none", err |-> <<>>]}
      \cup {[at |-> a, err |-> e] : a \in {"mkdir", "copyFile", "writeEnv"}, e \in FsErrors}

\* part_001:125-141: create the module folder when it is missing, copy the
\* manifest, write .env, then issue docker.compose.create.  cs is what the
\* call did so far.
Provision(l2, ver, cs) ==
    \E f \in FsOutcomes :
      LET mk  == IF files.dir THEN cs ELSE Append(cs, "mkdir")
          cp  == Append(mk, "copyFile")
          env == Append(cp, "writeEnv")
      IN
      /\ f.at = "mkdir" => ~files.dir
      /\ files' =
           CASE f.at = "mkdir"    -> files
             [] f.at = "copyFile" -> [files EXCEPT !.dir = TRUE]
             [] f.at = "writeEnv" -> [files EXCEPT !.dir = TRUE, !.compose = TRUE]
             [] OTHER -> [files EXCEPT !.dir = TRUE, !.compose = TRUE,
                            !.env = [VERSION |-> ver, RPC_PORT |-> RpcPort(l2.rpcUrl)]]
      /\ CASE f.at = "mkdir"    -> Return(Throws(InstallCatch(f.err)), mk)
           [] f.at = "copyFile" -> Return(Throws(InstallCatch(f.err)), cp)
           [] f.at = "writeEnv" ->
                Return(Throws(InstallCatch(
                    <<"Error writing to .env file: ">> \o ErrorToString(f.err))), env)
           [] OTHER ->
                /\ Await("in_create", Append(env, "create"))
                /\ l2Network' = l2
                /\ version' = ver
                /\ UNCHANGED apiLatestBlockNumber

\* part_001:120-122, up to `await this.getL2Network()`.
Install ==
    /\ Begin("install")
    /\ Await("in_getNodeInfo", <<"getNodeInfo">>)
    /\ l2Network' = NoNetwork
    /\ version' = Undefined
    /\ apiLatestBlockNumber' = 0
    /\ UNCHANGED << moduleConfig, latestVersion, hostVars, dockerVars, files, installed >>

\* part_001:122-123 and 176-181: the node descriptor arrives; getLatestVersion
\* answers from the cache, or queries the remote.
InstallNodeInfo ==
    /\ Running({"install", "update"}, "in_getNodeInfo")
    /\ \E ok \in BOOLEAN :
         IF ~ok
           THEN /\ Return(Throws(InstallCatch(ErrNodeInfo)), calls)
                /\ UNCHANGED files
           ELSE IF Falsy(latestVersion)
                  THEN /\ Await("in_getLatestReleaseVersion",
                                Append(calls, "getLatestReleaseVersion"))
                       /\ l2Network' = nodeInfoL2
                       /\ UNCHANGED << version, apiLatestBlockNumber, files >>
                  ELSE Provision(nodeInfoL2, latestVersion, calls)
    /\ UNCHANGED << moduleConfig, latestVersion, hostVars, dockerVars, frame >>

\* part_001:178-180 then 125-141: the remote's latest release arrives and is
\* cached; the files are provisioned.
InstallReleaseVersion ==
    /\ Running({"install", "update"}, "in_getLatestReleaseVersion")
    /\ \E ok \in BOOLEAN :
         IF ~ok
           THEN /\ Return(Throws(InstallCatch(ErrRelease)), calls)
                /\ UNCHANGED << latestVersion, files >>
           ELSE /\ latestVersion' = Tag(remoteTag)
                /\ Provision(l2Network, Tag(remoteTag), calls)
    /\ UNCHANGED << moduleConfig, hostVars, dockerVars, frame >>

\* Mutant: only the version is saved.
SetModuleConfigVersionOnly(ver, l2) == [moduleConfig EXCEPT !.version = ver]

\* part_001:147-151: setModuleConfig({...moduleConfig, version, l2Network}).
SetModuleConfig(ver, l2) == [moduleConfig EXCEPT !.version = ver, !.l2Network = l2]

\* Mutant: install() creates and starts the containers.
ComposeCreateAndStart(c) == [s \in Services |-> "running"]

\* Mutant: install() creates no container.
ComposeCreateNothing(c) == c

\* docker.compose.create(file): every missing container of the stack is created.
ComposeCreate(c) == [s \in Services |-> IF c[s] = "absent" THEN "created" ELSE c[s]]

\* Mutant: the config is saved as soon as the containers exist, before the
\* runtime config is injected.
InstallCreateSavesConfig ==
    /\ Running({"install", "update"}, "in_create")
    /\ \E ce \in CreateErrors \cup {<<>>} :
         IF ce # <<>>
           THEN /\ Return(Throws(InstallCatch(ce)), calls)
                /\ UNCHANGED << containers, files, moduleConfig, installed >>
           ELSE /\ containers' = ComposeCreate(containers)
                /\ moduleConfig' = SetModuleConfig(version, l2Network)
                /\ installed' = version
                /\ \E e \in FsErrors \cup {<<>>} :
                     IF e # <<>>
                       THEN /\ Return(Throws(InstallCatch(
                                 <<"Error writing to app config file: ">> \o ErrorToString(e))),
                                 Append(calls, "writeAppConfig"))
                            /\ UNCHANGED files
                       ELSE /\ Await("in_cp", calls \o <<"setModuleConfig", "writeAppConfig", "cp">>)
                            /\ UNCHANGED << files, localVars >>
    /\ UNCHANGED << latestVersion, hostVars, volumes, inflight, apiHeight,
                    op, atCall, prev >>

\* part_001:141-144 and 97-113: the containers are created; applyAppConfig
\* renders the template, writes app-config.js and issues `docker compose cp`.
InstallCreate ==
    /\ Running({"install", "update"}, "in_create")
    /\ \E ce \in CreateErrors \cup {<<>>} :
         IF ce # <<>>
           THEN /\ Return(Throws(InstallCatch(ce)), calls)
                /\ UNCHANGED << containers, files >>
           ELSE /\ containers' = ComposeCreate(containers)
                /\ \E e \in FsErrors \cup {<<>>} :
                     IF e # <<>>
                       THEN /\ Return(Throws(InstallCatch(
                                 <<"Error writing to app config file: ">> \o ErrorToString(e))),
                                 Append(calls, "writeAppConfig"))
                            /\ UNCHANGED files
                       ELSE /\ Await("in_cp", calls \o <<"writeAppConfig", "cp">>)
                            /\ UNCHANGED << files, localVars >>
    /\ UNCHANGED << moduleConfig, latestVersion, hostVars, volumes, inflight,
                    apiHeight, frame >>

\* part_001:110-117 and 146-151: the copy into the app container returns; an
\* error or any output fails the install, otherwise the config is saved.
InstallCp ==
    /\ Running({"install", "update"}, "in_cp")
    /\ \E out \in {"ok", "reject", "output"} :
         CASE out = "reject" ->
                /\ Return(Throws(InstallCatch(ErrCommand)), calls)
                /\ UNCHANGED << moduleConfig, installed >>
           [] out = "output" ->
                /\ Return(Throws(InstallCatch(
                     <<"Error while copying app config to the app container: ", "output">>)),
                     calls)
                /\ UNCHANGED << moduleConfig, installed >>
           [] OTHER ->
                /\ moduleConfig' = SetModuleConfig(version, l2Network)
                /\ installed' = version
                /\ Return(Ok("void"), Append(calls, "setModuleConfig"))
    /\ UNCHANGED << latestVersion, hostVars, containers, volumes, inflight,
                    apiHeight, files, op, atCall, prev >>


\* ------------------------------------------------- stop / clean / update
\* docker.compose.stop(file): running containers exit.
ComposeStop(c) == [s \in Services |-> IF c[s] = "running" THEN "exited" ELSE c[s]]

\* docker.compose.down(file): the containers of the stack are removed.
ComposeDown(c) == [s \in Services |-> "absent"]

\* docker.compose.up(file): every container of the stack is created and started.
ComposeUp(c) == [s \in Services |-> "running"]

\* part_001:273-275, up to the await.
Stop ==
    /\ Begin("stop")
    /\ Await("sp_stop", <<"stop">>)
    /\ l2Network' = NoNetwork
    /\ version' = Undefined
    /\ apiLatestBlockNumber' = 0
    /\ UNCHANGED << moduleConfig, latestVersion, hostVars, dockerVars, files, installed >>

\* Mutant: stopping a stack that is not running is an error.
StopDoneRequiresRunning ==
    /\ Running({"stop"}, "sp_stop")
    /\ IF \E s \in Services : containers[s] = "running"
         THEN /\ containers' = ComposeStop(containers)
              /\ Return(Ok("void"), calls)
         ELSE /\ UNCHANGED containers
              /\ Return(Throws(ErrCommand), calls)
    /\ UNCHANGED << moduleConfig, latestVersion, hostVars, volumes, inflight,
                    apiHeight, files, frame >>

\* part_001:274: the orchestrator's stop returns.
StopDone ==
    /\ Running({"stop"}, "sp_stop")
    /\ \E ok \in BOOLEAN :
         /\ ~ok => \E s \in Services : containers[s] = "running"
         /\ IF ok
              THEN /\ containers' = ComposeStop(containers)
                   /\ Return(Ok("void"), calls)
              ELSE /\ UNCHANGED containers
                   /\ Return(Throws(ErrCommand), calls)
    /\ UNCHANGED << moduleConfig, latestVersion, hostVars, volumes, inflight,
                    apiHeight, files, frame >>

\* part_001:277-279, up to the await.
Clean ==
    /\ Begin("clean")
    /\ Await("cl_down", <<"down">>)
    /\ l2Network' = NoNetwork
    /\ version' = Undefined
    /\ apiLatestBlockNumber' = 0
    /\ UNCHANGED << moduleConfig, latestVersion, hostVars, dockerVars, files, installed >>

\* Mutant: clean() also forgets the persisted config.
CleanDoneClearsConfig ==
    /\ Running({"clean"}, "cl_down")
    /\ containers' = ComposeDown(containers)
    /\ moduleConfig' = EmptyConfig
    /\ Return(Ok("void"), calls)
    /\ UNCHANGED << latestVersion, hostVars, volumes, inflight, apiHeight, files, frame >>

\* part_001:278: the orchestrator's down returns.
CleanDone ==
    /\ Running({"clean"}, "cl_down")
    /\ \E ok \in BOOLEAN :
         /\ ~ok => ComposeStatus # {}
         /\ IF ok
              THEN /\ containers' = ComposeDown(containers)
                   /\ Return(Ok("void"), calls)
              ELSE /\ UNCHANGED containers
                   /\ Return(Throws(ErrCommand), calls)
    /\ UNCHANGED << moduleConfig, latestVersion, hostVars, volumes, inflight,
                    apiHeight, files, frame >>

\* part_001:268-269: update() calls clean(), up to the await of down.
Update ==
    /\ Begin("update")
    /\ Await("up_down", <<"down">>)
    /\ l2Network' = NoNetwork
    /\ version' = Undefined
    /\ apiLatestBlockNumber' = 0
    /\ UNCHANGED << moduleConfig, latestVersion, hostVars, dockerVars, files, installed >>

\* Mutant: update() goes on to install() whatever clean() did.
UpdateCleanIgnoresFailure ==
    /\ Running({"update"}, "up_down")
    /\ \E ok \in BOOLEAN :
         /\ ~ok => ComposeStatus # {}
         /\ containers' = IF ok THEN ComposeDown(containers) ELSE containers
         /\ Await("in_getNodeInfo", Append(calls, "getNodeInfo"))
         /\ UNCHANGED localVars
    /\ UNCHANGED << moduleConfig, latestVersion, hostVars, volumes, inflight,
                    apiHeight, files, frame >>

\* part_001:269-270: clean() returns inside update(); when it threw, update()
\* throws, otherwise install() starts and runs up to `await this.getL2Network()`.
UpdateClean ==
    /\ Running({"update"}, "up_down")
    /\ \E ok \in BOOLEAN :
         /\ ~ok => ComposeStatus # {}
         /\ IF ok
              THEN /\ containers' = ComposeDown(containers)
                   /\ Await("in_getNodeInfo", Append(calls, "getNodeInfo"))
                   /\ UNCHANGED localVars
              ELSE /\ UNCHANGED containers
                   /\ Return(Throws(ErrCommand), calls)
    /\ UNCHANGED << moduleConfig, latestVersion, hostVars, volumes, inflight,
                    apiHeight, files, frame >>

\* ------------------------------------------------------ isRunning / getLogs
\* part_001:281-283, up to the await.
IsRunning ==
    /\ Begin("isRunning")
    /\ Await("ir_status", <<"status">>)
    /\ l2Network' = NoNetwork
    /\ version' = Undefined
    /\ apiLatestBlockNumber' = 0
    /\ UNCHANGED << moduleConfig, latestVersion, hostVars, dockerVars, files, installed >>

\* part_001:282: some service of the status list is running.
IsRunningStatus ==
    /\ Running({"isRunning"}, "ir_status")
    /\ Return(Ok(Bool(\E s \in ComposeStatus : containers[s] = "running")), calls)
    /\ UNCHANGED << moduleConfig, latestVersion, hostVars, dockerVars, files, frame >>

\* part_001:285-287, up to the await.
GetLogs ==
    /\ Begin("getLogs")
    /\ Await("gl_logs", <<"logs">>)
    /\ l2Network' = NoNetwork
    /\ version' = Undefined
    /\ apiLatestBlockNumber' = 0
    /\ UNCHANGED << moduleConfig, latestVersion, hostVars, dockerVars, files, installed >>

\* part_001:286: the orchestrator's logs are passed through.
GetLogsDone ==
    /\ Running({"getLogs"}, "gl_logs")
    /\ Return(Ok("logs"), calls)
    /\ UNCHANGED << moduleConfig, latestVersion, hostVars, dockerVars, files, frame >>

\* -------------------------------------------------------- getLatestVersion
\* Mutant: the cache is not consulted.
GetLatestVersionNoCache ==
    /\ Begin("getLatestVersion")
    /\ Await("lv_getLatestReleaseVersion", <<"getLatestReleaseVersion">>)
    /\ l2Network' = NoNetwork
    /\ version' = Undefined
    /\ apiLatestBlockNumber' = 0
    /\ UNCHANGED << moduleConfig, latestVersion, hostVars, dockerVars, files, installed >>

\* part_001:176-181 called by the host: answer from the cache, or query.
GetLatestVersion ==
    /\ Begin("getLatestVersion")
    /\ IF Falsy(latestVersion)
         THEN /\ Await("lv_getLatestReleaseVersion", <<"getLatestReleaseVersion">>)
              /\ l2Network' = NoNetwork
              /\ version' = Undefined
              /\ apiLatestBlockNumber' = 0
         ELSE Return(Ok(latestVersion), <<>>)
    /\ UNCHANGED << moduleConfig, latestVersion, hostVars, dockerVars, files, installed >>

\* part_001:178-180: the remote's latest release arrives and is cached.
GetLatestVersionRelease ==
    /\ Running({"getLatestVersion"}, "lv_getLatestReleaseVersion")
    /\ \E ok \in BOOLEAN :
         IF ok
           THEN /\ latestVersion' = Tag(remoteTag)
                /\ Return(Ok(Tag(remoteTag)), calls)
           ELSE /\ UNCHANGED latestVersion
                /\ Return(Throws(ErrRelease), calls)
    /\ UNCHANGED << moduleConfig, hostVars, dockerVars, files, frame >>


\* -------------------------------------------------------------------- start
\* part_001:262-263 and 183-188: start() calls cleanupIndexedData(), which
\* issues `docker compose rm -fsv` for the three services at once (Promise.all).
Start ==
    /\ Begin("start")
    /\ inflight' = CleanedServices
    /\ Await("st_rm", <<"rm worker", "rm api", "rm postgres">>)
    /\ l2Network' = NoNetwork
    /\ version' = Undefined
    /\ apiLatestBlockNumber' = 0
    /\ UNCHANGED << moduleConfig, latestVersion, hostVars, containers, volumes,
                    apiHeight, files, installed >>

\* Mutant: the volume listing is issued as soon as one removal returned.
CleanupRmFirstReturn ==
    /\ Running({"start"}, "st_rm")
    /\ \E s \in inflight :
         /\ inflight' = inflight \ {s}
         /\ containers' = [containers EXCEPT ![s] = "absent"]
         /\ Await("st_volume_ls", Append(calls, "volume ls"))
    /\ UNCHANGED << moduleConfig, latestVersion, hostVars, volumes,
                    apiHeight, files, localVars, frame >>

\* part_001:184-191: one `docker compose rm -fsv <service>` returns (a forced
\* removal succeeds); when all three have returned Promise.all resolves and
\* `docker volume ls` is issued.
CleanupRm ==
    /\ Running({"start"}, "st_rm")
    /\ \E s \in inflight :
         /\ inflight' = inflight \ {s}
         /\ containers' = [containers EXCEPT ![s] = "absent"]
         /\ IF inflight' # {}
              THEN UNCHANGED << pc, result, calls >>
              ELSE Await("st_volume_ls", Append(calls, "volume ls"))
    /\ UNCHANGED << moduleConfig, latestVersion, hostVars, volumes,
                    apiHeight, files, localVars, frame >>

\* part_001:190-194 and 264: the volume listing arrives; the volume is removed
\* when the listing includes its name, otherwise docker.compose.up is issued.
CleanupVolumeLs ==
    /\ Running({"start"}, "st_volume_ls")
    /\ IF Includes(VolumeLs(volumes), fullDatabaseName)
         THEN Await("st_volume_rm", Append(calls, "volume rm"))
         ELSE Await("st_up", Append(calls, "up"))
    /\ UNCHANGED << moduleConfig, latestVersion, hostVars, dockerVars, files,
                    localVars, frame >>

\* Mutant: every volume whose name contains the computed name is removed.
CleanupVolumeRmMatching ==
    /\ Running({"start"}, "st_volume_rm")
    /\ volumes' = {v \in volumes : ~Includes(v, fullDatabaseName)}
    /\ apiHeight' = 0
    /\ Await("st_up", Append(calls, "up"))
    /\ UNCHANGED localVars
    /\ UNCHANGED << moduleConfig, latestVersion, hostVars, containers, inflight,
                    files, frame >>

\* part_001:193 and 264: `docker volume rm <fullDatabaseName>` returns; it
\* fails when no volume has exactly that name.
CleanupVolumeRm ==
    /\ Running({"start"}, "st_volume_rm")
    /\ \E ok \in BOOLEAN :
         /\ ok => fullDatabaseName \in volumes
         /\ IF ok
              THEN /\ volumes' = volumes \ {fullDatabaseName}
                   /\ apiHeight' = 0
                   /\ Await("st_up", Append(calls, "up"))
                   /\ UNCHANGED localVars
              ELSE /\ Return(Throws(ErrCommand), calls)
                   /\ UNCHANGED << volumes, apiHeight >>
    /\ UNCHANGED << moduleConfig, latestVersion, hostVars, containers, inflight,
                    files, frame >>

\* Mutant: start() returns when the orchestrator's up returned.
StartUpNoWait ==
    /\ Running({"start"}, "st_up")
    /\ \E ok \in BOOLEAN :
         IF ok
           THEN /\ containers' = ComposeUp(containers)
                /\ volumes' = volumes \cup {fullDatabaseName}
                /\ Return(Ok("void"), calls)
           ELSE /\ Return(Throws(ErrCommand), calls)
                /\ UNCHANGED << containers, volumes >>
    /\ UNCHANGED << moduleConfig, latestVersion, hostVars, inflight,
                    apiHeight, files, frame >>

\* part_001:264-265 and 231-238: the orchestrator's up returns; the readiness
\* loop starts with the API query.
StartUp ==
    /\ Running({"start"}, "st_up")
    /\ \E ok \in BOOLEAN :
         IF ok
           THEN /\ containers' = ComposeUp(containers)
                /\ volumes' = volumes \cup {fullDatabaseName}
                /\ Await("wt_blocks", calls)
                /\ UNCHANGED localVars
           ELSE /\ Return(Throws(ErrCommand), calls)
                /\ UNCHANGED << containers, volumes >>
    /\ UNCHANGED << moduleConfig, latestVersion, hostVars, inflight,
                    apiHeight, files, frame >>

\* Mutant: a failed API query is thrown to the caller.
WaitApiSurfacesFailure ==
    /\ Running({"start"}, "wt_blocks")
    /\ \E ok \in BOOLEAN :
         /\ ok => containers["api"] = "running"
         /\ IF ok
              THEN /\ apiLatestBlockNumber' = apiHeight
                   /\ pc' = "wt_getNodeInfo"
                   /\ UNCHANGED << l2Network, version, result, calls >>
              ELSE Return(Throws(ErrFetch), calls)
    /\ UNCHANGED << moduleConfig, latestVersion, hostVars, dockerVars, files, frame >>

\* part_001:236-242, 222-225 and 198: the API answers with its latest block
\* (0 when it has none) and the node descriptor is requested; a failed query
\* is swallowed and followed by the one-second timer.
WaitApi ==
    /\ Running({"start"}, "wt_blocks")
    /\ \E ok \in BOOLEAN :
         /\ ok => containers["api"] = "running"
         /\ IF ok
              THEN /\ apiLatestBlockNumber' = apiHeight
                   /\ pc' = "wt_getNodeInfo"
              ELSE /\ pc' = "wt_sleep"
                   /\ UNCHANGED apiLatestBlockNumber
    /\ UNCHANGED << moduleConfig, latestVersion, hostVars, dockerVars, files,
                    l2Network, version, result, calls, frame >>

\* part_001:198-211: the node descriptor arrives, eth_blockNumber is posted.
WaitNodeInfo ==
    /\ Running({"start"}, "wt_getNodeInfo")
    /\ \E ok \in BOOLEAN :
         IF ok
           THEN /\ l2Network' = nodeInfoL2
                /\ pc' = "wt_eth_blockNumber"
                /\ UNCHANGED << version, apiLatestBlockNumber, result, calls >>
           ELSE Return(Throws(ErrNodeInfo), calls)
    /\ UNCHANGED << moduleConfig, latestVersion, hostVars, dockerVars, files, frame >>

\* The digits parseInt(_, 16) accepts, by value (index - 1).
HexDigits == <<"0", "1", "2", "3", "4", "5", "6", "7", "8", "9",
               "a", "b", "c", "d", "e", "f">>

HexDigitSet == {HexDigits[i] : i \in DOMAIN HexDigits}

HexValue(ch) == (CHOOSE i \in DOMAIN HexDigits : HexDigits[i] = ch) - 1

NaN == -1

\* The characters of n in base 16, without prefix.
RECURSIVE ToHex(_)
ToHex(n) == IF n < 16 THEN <<HexDigits[n + 1]>>
            ELSE Append(ToHex(n \div 16), HexDigits[(n % 16) + 1])

\* The `result` of the node's eth_blockNumber response at height n.
EthBlockNumber(n) == <<"0", "x">> \o ToHex(n)

\* A response without a usable `result` (a JSON-RPC error object); parseInt
\* converts the missing value to the text "undefined".
MalformedResult == <<"u", "n", "d", "e", "f", "i", "n", "e", "d">>

RECURSIVE ParseHexPrefix(_, _, _)
ParseHexPrefix(str, i, acc) ==
    IF i > Len(str) \/ str[i] \notin HexDigitSet
      THEN acc
      ELSE ParseHexPrefix(str, i + 1,
             (IF acc = NaN THEN 0 ELSE acc) * 16 + HexValue(str[i]))

\* part_001:212: parseInt(response.result, 16): an optional 0x prefix, then
\* the longest run of hexadecimal digits; NaN when there is none.
ParseInt16(str) ==
    IF Len(str) >= 2 /\ str[1] = "0" /\ str[2] \in {"x", "X"}
      THEN ParseHexPrefix(str, 3, NaN)
      ELSE ParseHexPrefix(str, 1, NaN)

\* What the node can answer to eth_blockNumber.
NodeResponses == {EthBlockNumber(nodeHeight), MalformedResult}

ErrFailedBlockNumber(e) ==
    <<"Failed to get latest block number from L2 node: ">> \o ErrorToString(e)

ErrUnexpectedResponse == <<"Unexpected response from L2 node: ", "{}">>

\* Mutant: the loop ends as soon as the node answered, equal heights or not.
WaitBlockNumberNoCompare ==
    /\ Running({"start"}, "wt_eth_blockNumber")
    /\ \E out \in {<<>>} \cup NodeResponses :
         IF out = <<>>
           THEN Return(Throws(ErrFailedBlockNumber(ErrFetch)), calls)
           ELSE IF ParseInt16(out) = NaN
             THEN Return(Throws(ErrFailedBlockNumber(ErrUnexpectedResponse)), calls)
             ELSE Return(Ok("void"), calls)
    /\ UNCHANGED << moduleConfig, latestVersion, hostVars, dockerVars, files, frame >>

\* Mutant: equal heights are reported as progress and the loop goes on.
WaitBlockNumberNoReturn ==
    /\ Running({"start"}, "wt_eth_blockNumber")
    /\ \E out \in {<<>>} \cup NodeResponses :
         IF out = <<>>
           THEN Return(Throws(ErrFailedBlockNumber(ErrFetch)), calls)
           ELSE IF ParseInt16(out) = NaN
             THEN Return(Throws(ErrFailedBlockNumber(ErrUnexpectedResponse)), calls)
             ELSE /\ pc' = "wt_sleep"
                  /\ UNCHANGED << localVars, result, calls >>
    /\ UNCHANGED << moduleConfig, latestVersion, hostVars, dockerVars, files, frame >>

\* part_001:200-219 and 244-258: the request fails, or the node's answer is
\* parsed and compared with the API's block number.
WaitBlockNumber ==
    /\ Running({"start"}, "wt_eth_blockNumber")
    /\ \E out \in {<<>>} \cup NodeResponses :
         IF out = <<>>
           THEN Return(Throws(ErrFailedBlockNumber(ErrFetch)), calls)
           ELSE IF ParseInt16(out) = NaN
             THEN Return(Throws(ErrFailedBlockNumber(ErrUnexpectedResponse)), calls)
             ELSE IF apiLatestBlockNumber = ParseInt16(out)
               THEN Return(Ok("void"), calls)
               ELSE /\ pc' = "wt_sleep"
                    /\ UNCHANGED << localVars, result, calls >>
    /\ UNCHANGED << moduleConfig, latestVersion, hostVars, dockerVars, files, frame >>

\* part_001:240 and 258: the one-second timer fires; the loop queries the API.
WaitSleep ==
    /\ Running({"start"}, "wt_sleep")
    /\ pc' = "wt_blocks"
    /\ UNCHANGED << moduleConfig, latestVersion, hostVars, dockerVars, files,
                    localVars, result, calls, frame >>

\* -------------------------------------------------------------- environment
control == << op, pc, localVars, result, calls, atCall, prev, installed >>

\* The user points the host at another network (part_001:74-77 reads it).
SwitchNetwork ==
    /\ nodeInfoL2' \in Networks \ {nodeInfoL2}
    /\ UNCHANGED << moduleConfig, latestVersion, remoteTag, nodeHeight, dockerVars,
                    files, control, repoVars, libVars >>

\* Upstream publishes a release (part_001:178 reads it).
PublishRelease ==
    /\ remoteTag < NumReleases
    /\ remoteTag' = remoteTag + 1
    /\ UNCHANGED << moduleConfig, latestVersion, nodeInfoL2, nodeHeight, dockerVars,
                    files, control, repoVars, libVars >>

\* The host process ends after a call and a new one starts: module-level
\* state (part_001:45) is lost, persisted state is kept.
Restart ==
    /\ pc = "done"
    /\ latestVersion' = Undefined
    /\ op' = "none"
    /\ pc' = "idle"
    /\ result' = NoResult
    /\ calls' = <<>>
    /\ l2Network' = NoNetwork
    /\ atCall' = Snapshot(moduleConfig, Undefined)
    /\ prev' = "none"
    /\ UNCHANGED << moduleConfig, hostVars, dockerVars, files, version,
                    apiLatestBlockNumber, installed >>

\* Blocks the node may already hold when the controller is first observed.
PriorBlocks == 14

\* The node mines a block.
MineBlock ==
    /\ nodeHeight < PriorBlocks + MaxHeight
    /\ nodeHeight' = nodeHeight + 1
    /\ UNCHANGED << moduleConfig, latestVersion, nodeInfoL2, remoteTag, dockerVars,
                    files, control, repoVars, libVars >>

\* The worker indexes a batch of the node's blocks into the database the API
\* reads.
IndexBlock ==
    /\ containers["worker"] = "running"
    /\ containers["postgres"] = "running"
    /\ apiHeight < nodeHeight
    /\ apiHeight' \in (apiHeight + 1) .. nodeHeight
    /\ UNCHANGED << moduleConfig, latestVersion, hostVars, containers, volumes,
                    inflight, files, control >>

\* --------------------------------- getLatestVersion over the local clone
\* The tag names of the releases, "v" first: Join(TagChars(n)) = Tag(n).
VersionNumbers == <<"2.40.0", "2.41.0", "2.42.0", "2.43.0">>

TagChars(n) == <<"v", VersionNumbers[n]>>

\* A tag of the clone that is no release tag.
NightlyTag == <<"nightly">>

\* What the latest tagged commit of the local clone can be named; <<>> when
\* the clone has no tagged commit.
LocalTagNames == {<<>>, NightlyTag} \cup {TagChars(n) : n \in 1 .. NumReleases}

Whitespace == {" ", "\n"}

\* String.prototype.trim().
RECURSIVE Trim(_)
Trim(str) ==
    IF str = <<>> THEN str
    ELSE IF Head(str) \in Whitespace THEN Trim(Tail(str))
    ELSE IF str[Len(str)] \in Whitespace THEN Trim(SubSeq(str, 1, Len(str) - 1))
    ELSE str

\* The string made of the pieces.
RECURSIVE Join(_)
Join(str) == IF str = <<>> THEN "" ELSE Head(str) \o Join(Tail(str))

\* Output of `git rev-list --tags --max-count=1` in the clone.
RevListOutput == IF localRepo = <<>> THEN <<>> ELSE <<"c0ffee", "\n">>

\* Output of `git describe --tags <hash>` in the clone.
DescribeOutput == localRepo \o <<"\n">>

ErrParseHash ==
    <<"Failed to parse latest version hash from the local repository: ">>

ErrParseVersion ==
    <<"Failed to parse latest version from the local repository: ">>

\* index.ts:129-138, up to the first await: answer from the cache, query the
\* remote when there is no clone, otherwise fetch the tags of the clone.
GetLatestVersionRepo ==
    /\ Begin("getLatestVersion")
    /\ IF ~Falsy(latestVersion)
         THEN Return(Ok(latestVersion), <<>>)
         ELSE /\ IF ~repoCloned
                   THEN Await("lv_getLatestReleaseVersion", <<"getLatestReleaseVersion">>)
                   ELSE Await("rv_fetchTags", <<"fetchTags">>)
              /\ l2Network' = NoNetwork
              /\ version' = Undefined
              /\ apiLatestBlockNumber' = 0
    /\ UNCHANGED << moduleConfig, latestVersion, hostVars, dockerVars, files, installed >>

\* Mutant: a failed tag fetch is thrown to the caller.
GitFetchTagsFatal ==
    /\ Running({"getLatestVersion"}, "rv_fetchTags")
    /\ \E ok \in BOOLEAN :
         IF ok
           THEN /\ localRepo' = TagChars(remoteTag)
                /\ Await("rv_revList", Append(calls, "revList"))
                /\ UNCHANGED localVars
           ELSE /\ UNCHANGED localRepo
                /\ Return(Throws(ErrCommand), calls)
    /\ UNCHANGED << moduleConfig, latestVersion, nodeInfoL2, remoteTag, nodeHeight,
                    repoCloned, libVars, dockerVars, files, frame >>

\* index.ts:136-141 and 104-106: `git fetch --tags` returns; its failure is
\* logged as a warning; `git rev-list` is issued in the clone either way.
GitFetchTags ==
    /\ Running({"getLatestVersion"}, "rv_fetchTags")
    /\ \E ok \in BOOLEAN :
         IF ok
           THEN /\ localRepo' = TagChars(remoteTag)
                /\ Await("rv_revList", Append(calls, "revList"))
           ELSE /\ UNCHANGED localRepo
                /\ Await("rv_revList", calls \o <<"warn", "revList">>)
    /\ UNCHANGED << moduleConfig, latestVersion, nodeInfoL2, remoteTag, nodeHeight,
                    repoCloned, libVars, dockerVars, files, localVars, frame >>

\* index.ts:108-120: the hash of the latest tagged commit arrives; an empty
\* one is an error, otherwise `git describe` is issued.
GitRevList ==
    /\ Running({"getLatestVersion"}, "rv_revList")
    /\ \E ok \in BOOLEAN :
         IF ~ok
           THEN Return(Throws(ErrCommand), calls)
           ELSE IF Len(Trim(RevListOutput)) = 0
             THEN Return(Throws(ErrParseHash \o Trim(RevListOutput)), calls)
             ELSE /\ Await("rv_describe", Append(calls, "describe"))
                  /\ UNCHANGED localVars
    /\ UNCHANGED << moduleConfig, latestVersion, hostVars, dockerVars, files, frame >>

\* Mutant: the tag name is cached as read, before it is checked.
GitDescribeCachesUnchecked ==
    /\ Running({"getLatestVersion"}, "rv_describe")
    /\ \E out \in {<<"rejected">>, <<>>, DescribeOutput} :
         LET tagName == Trim(out)
         IN  IF out = <<"rejected">>
               THEN /\ Return(Throws(ErrCommand), calls)
                    /\ UNCHANGED latestVersion
               ELSE /\ latestVersion' = Join(tagName)
                    /\ IF Len(tagName) = 0 \/ tagName[1] # "v"
                         THEN Return(Throws(ErrParseVersion \o tagName), calls)
                         ELSE Return(Ok(Join(tagName)), calls)
    /\ UNCHANGED << moduleConfig, hostVars, dockerVars, files, frame >>

\* Mutant: any non-empty tag name is accepted.
GitDescribeAnyTag ==
    /\ Running({"getLatestVersion"}, "rv_describe")
    /\ \E out \in {<<"rejected">>, <<>>, DescribeOutput} :
         LET tagName == Trim(out)
         IN  IF out = <<"rejected">>
               THEN /\ Return(Throws(ErrCommand), calls)
                    /\ UNCHANGED latestVersion
               ELSE IF Len(tagName) = 0
                 THEN /\ Return(Throws(ErrParseVersion \o tagName), calls)
                      /\ UNCHANGED latestVersion
                 ELSE /\ latestVersion' = Join(tagName)
                      /\ Return(Ok(Join(tagName)), calls)
    /\ UNCHANGED << moduleConfig, hostVars, dockerVars, files, frame >>

\* index.ts:116-127 and 141-143: the tag name arrives; an empty one or one
\* that does not start with "v" is an error, otherwise it is cached and
\* returned.
GitDescribe ==
    /\ Running({"getLatestVersion"}, "rv_describe")
    /\ \E out \in {<<"rejected">>, <<>>, DescribeOutput} :
         LET tagName == Trim(out)
         IN  IF out = <<"rejected">>
               THEN /\ Return(Throws(ErrCommand), calls)
                    /\ UNCHANGED latestVersion
               ELSE IF Len(tagName) = 0 \/ tagName[1] # "v"
                 THEN /\ Return(Throws(ErrParseVersion \o tagName), calls)
                      /\ UNCHANGED latestVersion
                 ELSE /\ latestVersion' = Join(tagName)
                      /\ Return(Ok(Join(tagName)), calls)
    /\ UNCHANGED << moduleConfig, hostVars, dockerVars, files, frame >>

\* index.ts:61-64: install() of this revision clones the upstream repository.
CloneRepo ==
    /\ Callable
    /\ ~repoCloned
    /\ repoCloned' = TRUE
    /\ localRepo' = TagChars(remoteTag)
    /\ UNCHANGED << moduleConfig, latestVersion, nodeInfoL2, remoteTag, nodeHeight,
                    libVars, dockerVars, files, control >>

\* The user tags or untags commits of the clone.
RetagLocalRepo ==
    /\ repoCloned
    /\ localRepo' \in LocalTagNames \ {localRepo}
    /\ UNCHANGED << moduleConfig, latestVersion, nodeInfoL2, remoteTag, nodeHeight,
                    repoCloned, libVars, dockerVars, files, control >>

\* ------------------------------------------------- compareSemanticVersions
DecDigits == <<"0", "1", "2", "3", "4", "5", "6", "7", "8", "9">>

DecDigitSet == {DecDigits[i] : i \in DOMAIN DecDigits}

DecValue(ch) == (CHOOSE i \in DOMAIN DecDigits : DecDigits[i] = ch) - 1

\* The decimal text of n, as characters.
RECURSIVE ToDecimal(_)
ToDecimal(n) == IF n < 10 THEN <<DecDigits[n + 1]>>
                ELSE Append(ToDecimal(n \div 10), DecDigits[(n % 10) + 1])

\* The version string of a sequence of integers: "1.2.10" for <<1, 2, 10>>.
RECURSIVE VersionString(_)
VersionString(ints) ==
    IF Len(ints) = 0 THEN <<>>
    ELSE IF Len(ints) = 1 THEN ToDecimal(ints[1])
    ELSE ToDecimal(ints[1]) \o <<".">> \o VersionString(Tail(ints))

\* String.prototype.split(sep): the pieces between the separators.
RECURSIVE Split(_, _)
Split(str, sep) ==
    IF \A i \in DOMAIN str : str[i] # sep
      THEN <<str>>
      ELSE LET i == CHOOSE k \in DOMAIN str :
                      str[k] = sep /\ \A m \in 1 .. (k - 1) : str[m] # sep
           IN  <<SubSeq(str, 1, i - 1)>> \o Split(SubSeq(str, i + 1, Len(str)), sep)

RECURSIVE DecimalValue(_, _)
DecimalValue(str, acc) ==
    IF str = <<>> THEN acc
    ELSE DecimalValue(Tail(str), acc * 10 + DecValue(Head(str)))

\* Mutant: only the first digit of a component counts.
NumberFirstDigit(str) ==
    IF \E i \in DOMAIN str : str[i] \notin DecDigitSet
      THEN NaN
      ELSE IF str = <<>> THEN 0 ELSE DecValue(Head(str))

\* Number(str) for a piece of a version: 0 for the empty string, the value of
\* a run of decimal digits, NaN for anything else.
Number(str) ==
    IF \E i \in DOMAIN str : str[i] \notin DecDigitSet
      THEN NaN
      ELSE DecimalValue(str, 0)

\* part_000:65: version.split('.').map(Number).
parseVersion(versionStr) ==
    LET pieces == Split(versionStr, ".")
    IN  [i \in DOMAIN pieces |-> Number(pieces[i])]

\* part_000:71-72: v[i] || 0, for a missing, NaN or zero component.
OrZero(v, i) == IF i > Len(v) \/ v[i] = NaN THEN 0 ELSE v[i]

Max(a, b) == IF a >= b THEN a ELSE b

\* part_000:70-80: the loop from position i on.
RECURSIVE CompareFrom(_, _, _, _)
CompareFrom(v1, v2, i, last) ==
    IF i > last THEN 0
    ELSE IF OrZero(v1, i) > OrZero(v2, i) THEN 1
    ELSE IF OrZero(v1, i) < OrZero(v2, i) THEN -1
    ELSE CompareFrom(v1, v2, i + 1, last)

\* Mutant: the loop runs over the first version's components only.
compareSemanticVersionsFirstLength(version1, version2) ==
    LET v1 == parseVersion(version1)
        v2 == parseVersion(version2)
    IN  CompareFrom(v1, v2, 1, Len(v1))

\* part_000:64-83.
compareSemanticVersions(version1, version2) ==
    LET v1 == parseVersion(version1)
        v2 == parseVersion(version2)
    IN  CompareFrom(v1, v2, 1, Max(Len(v1), Len(v2)))

\* A caller compares two versions.
CompareVersions ==
    /\ compared = NotCompared
    /\ components1 # <<>>
    /\ compared' = compareSemanticVersions(VersionString(components1),
                                            VersionString(components2))
    /\ UNCHANGED << moduleConfig, latestVersion, nodeInfoL2, remoteTag, nodeHeight,
                    dockerVars, files, control, repoVars, components1, components2 >>

\* ------------------------------------------------------------ specification
Next ==
    \/ IsInstalled \/ IsInstalledNodeInfo \/ IsInstalledStatus
    \/ Version
    \/ Install \/ InstallNodeInfo \/ InstallReleaseVersion \/ InstallCreate \/ InstallCp
    \/ Stop \/ StopDone
    \/ Clean \/ CleanDone
    \/ Update \/ UpdateClean
    \/ IsRunning \/ IsRunningStatus
    \/ GetLogs \/ GetLogsDone
    \/ GetLatestVersion \/ GetLatestVersionRelease
    \/ Start \/ CleanupRm \/ CleanupVolumeLs \/ CleanupVolumeRm \/ StartUp
    \/ WaitApi \/ WaitNodeInfo \/ WaitBlockNumber \/ WaitSleep
    \/ SwitchNetwork \/ PublishRelease \/ Restart

Spec == Init /\ [][Next]_vars

SpecLegacy == InitLegacy /\ [][Next]_vars

\* The revision that resolves versions from a local clone: with or without
\* the clone, whose latest tag may be anything.
InitResolver ==
    /\ moduleConfig = EmptyConfig
    /\ nodeInfoL2 = [chainId |-> 270, rpcUrl |-> UrlLocal3050]
    /\ InitController
    /\ repoCloned \in BOOLEAN
    /\ localRepo \in (IF repoCloned THEN LocalTagNames ELSE {<<>>})
    /\ components1 = <<>>
    /\ components2 = <<>>
    /\ compared = NotCompared

NextResolver ==
    \/ GetLatestVersionRepo \/ GetLatestVersionRelease
    \/ GitFetchTags \/ GitRevList \/ GitDescribe
    \/ CloneRepo \/ RetagLocalRepo \/ PublishRelease \/ Restart

SpecResolver == InitResolver /\ [][NextResolver]_vars

\* Integers the components of the compared versions are drawn from.
ComponentValues1 == {0, 1, 2, 3}

ComponentValues2 == {0, 1, 2, 9, 10}

VersionsOver(values) ==
    UNION {[1 .. n -> values] : n \in 1 .. MaxComponents}

\* Two well-formed versions are given to compareSemanticVersions.
InitCompare ==
    /\ moduleConfig = EmptyConfig
    /\ nodeInfoL2 = [chainId |-> 270, rpcUrl |-> UrlLocal3050]
    /\ InitController
    /\ repoCloned = FALSE
    /\ localRepo = <<>>
    /\ components1 \in VersionsOver(ComponentValues1)
    /\ components2 \in VersionsOver(ComponentValues2)
    /\ compared = NotCompared

NextCompare == CompareVersions

SpecCompare == InitCompare /\ [][NextCompare]_vars

\* install() on a fresh installation, against a node whose RPC URL may
\* carry a port or not.
InitInstall ==
    /\ moduleConfig = EmptyConfig
    /\ latestVersion = Undefined
    /\ nodeInfoL2 \in RpcNetworks
    /\ remoteTag = 1
    /\ containers = [s \in Services |-> "absent"]
    /\ volumes = {}
    /\ inflight = {}
    /\ files = NoFiles
    /\ nodeHeight = 0
    /\ apiHeight = 0
    /\ op = "none"
    /\ pc = "idle"
    /\ l2Network = NoNetwork
    /\ version = Undefined
    /\ apiLatestBlockNumber = 0
    /\ result = NoResult
    /\ calls = <<>>
    /\ atCall = Snapshot(moduleConfig, Undefined)
    /\ prev = "none"
    /\ installed = Undefined
    /\ InitUnused

NextInstall ==
    \/ Install \/ InstallNodeInfo \/ InstallReleaseVersion \/ InstallCreate \/ InstallCp
    \/ PublishRelease \/ Restart

SpecInstall == InitInstall /\ [][NextInstall]_vars

\* The stack was installed and used before: containers exist, and the
\* orchestrator holds any of the volumes of this and other projects.
InitStart ==
    /\ nodeInfoL2 = [chainId |-> 270, rpcUrl |-> UrlLocal3050]
    /\ moduleConfig = [version |-> Tag(1), l2Network |-> nodeInfoL2]
    /\ installed = Tag(1)
    /\ latestVersion = Undefined
    /\ remoteTag = 1
    /\ containers \in {[s \in Services |-> "created"], [s \in Services |-> "exited"]}
    /\ volumes \in SUBSET {fullDatabaseName, BackupVolume, OtherVolume}
    /\ inflight = {}
    /\ files = [dir |-> TRUE, compose |-> TRUE,
                env |-> [VERSION |-> Tag(1), RPC_PORT |-> RpcPort(nodeInfoL2.rpcUrl)]]
    /\ nodeHeight \in {0, PriorBlocks}
    /\ apiHeight = 0
    /\ op = "none"
    /\ pc = "idle"
    /\ l2Network = NoNetwork
    /\ version = Undefined
    /\ apiLatestBlockNumber = 0
    /\ result = NoResult
    /\ calls = <<>>
    /\ atCall = Snapshot(moduleConfig, Undefined)
    /\ prev = "none"
    /\ InitUnused

\* start() and stop() on an installed stack, while the node mines and the
\* worker indexes.
NextStart ==
    \/ Start \/ CleanupRm \/ CleanupVolumeLs \/ CleanupVolumeRm \/ StartUp
    \/ WaitApi \/ WaitNodeInfo \/ WaitBlockNumber \/ WaitSleep
    \/ Stop \/ StopDone
    \/ MineBlock \/ IndexBlock

SpecStart == InitStart /\ [][NextStart]_vars

\* start() has brought the stack up and entered waitForFullIndexing(); the
\* API container runs, or has exited again.
InitWait ==
    /\ nodeInfoL2 = [chainId |-> 270, rpcUrl |-> UrlLocal3050]
    /\ moduleConfig = [version |-> Tag(1), l2Network |-> nodeInfoL2]
    /\ installed = Tag(1)
    /\ latestVersion = Undefined
    /\ remoteTag = 1
    /\ containers \in {[s \in Services |-> "running"],
                        [s \in Services |-> IF s = "api" THEN "exited" ELSE "running"]}
    /\ volumes = {fullDatabaseName}
    /\ inflight = {}
    /\ files = [dir |-> TRUE, compose |-> TRUE,
                env |-> [VERSION |-> Tag(1), RPC_PORT |-> RpcPort(nodeInfoL2.rpcUrl)]]
    /\ nodeHeight \in {0, PriorBlocks}
    /\ apiHeight = 0
    /\ op = "start"
    /\ pc = "wt_blocks"
    /\ l2Network = NoNetwork
    /\ version = Undefined
    /\ apiLatestBlockNumber = 0
    /\ result = NoResult
    /\ calls = <<"rm worker", "rm api", "rm postgres", "volume ls", "up">>
    /\ atCall = Snapshot(moduleConfig, Undefined)
    /\ prev = "none"
    /\ InitUnused

NextWait ==
    \/ WaitApi \/ WaitNodeInfo \/ WaitBlockNumber \/ WaitSleep
    \/ MineBlock \/ IndexBlock

\* Every awaited request settles and the one-second timer fires: a step of
\* the loop that can be taken is taken.
FairWait ==
    /\ WF_vars(WaitApi)
    /\ WF_vars(WaitNodeInfo)
    /\ WF_vars(WaitBlockNumber)
    /\ WF_vars(WaitSleep)

SpecWait == InitWait /\ [][NextWait]_vars /\ FairWait

\* ================================================================ claims
ConfigFull == ~Falsy(moduleConfig.version) /\ moduleConfig.l2Network # NoNetwork

Last(cs) == IF cs = <<>> THEN "" ELSE cs[Len(cs)]

Did(cs, step) == \E i \in DOMAIN cs : cs[i] = step

NoneRunning(c) == \A s \in Services : c[s] # "running"

\* C1: an install() that fails at any step leaves the persisted config as it
\* was when the call began; the config differs from that only once the call
\* has returned normally, its last step being the save, after the node
\* descriptor, the manifest copy, the .env write, the container creation, the
\* runtime-config write and the copy into the container all succeeded.
C1_FailedInstallKeepsConfig ==
    op \in {"install", "update"} =>
      \/ moduleConfig = atCall.cfg
      \/ /\ pc = "done"
         /\ result = Ok("void")
         /\ Last(calls) = "setModuleConfig"
         /\ \A step \in {"getNodeInfo", "copyFile", "writeEnv", "create",
                         "writeAppConfig", "cp"} : Did(calls, step)

\* An install failed at its last external step, after the .env file was
\* rewritten with a version the persisted config does not hold.
C1_Witness ==
    /\ op = "install"
    /\ pc = "done"
    /\ result.kind = "throws"
    /\ Last(calls) = "cp"
    /\ ConfigFull
    /\ files.env.VERSION # moduleConfig.version
    /\ moduleConfig = atCall.cfg

\* C2: starting from the empty config, the persisted config holds a version
\* exactly when it holds a network, whatever the controller was asked to do.
C2_VersionIffNetwork ==
    ~Falsy(moduleConfig.version) <=> moduleConfig.l2Network # NoNetwork

\* Both keys are present after an install, a stop and a clean.
C2_Witness ==
    /\ ConfigFull
    /\ op = "clean"
    /\ pc = "done"
    /\ result.kind = "ok"
    /\ prev = "stop"

\* C3: isInstalled() answers false when the persisted config lacks the
\* version or lacks the network.
C3_PartialConfigNotInstalled ==
    (op = "isInstalled" /\ pc = "done" /\ ~ConfigFull) => result = Ok("false")

\* The config holds a version and no network, the containers exist, and
\* isInstalled() answered false.
C3_Witness ==
    /\ op = "isInstalled"
    /\ pc = "done"
    /\ ~Falsy(moduleConfig.version)
    /\ moduleConfig.l2Network = NoNetwork
    /\ ComposeStatus # {}
    /\ result = Ok("false")

\* C4: isInstalled() answers false when the chain id or the RPC URL of the
\* network it resolved differs from the stored one.
C4_NetworkMismatchNotInstalled ==
    ( /\ op = "isInstalled"
      /\ pc = "done"
      /\ result.kind = "ok"
      /\ l2Network # NoNetwork
      /\ \/ l2Network.chainId # moduleConfig.l2Network.chainId
         \/ l2Network.rpcUrl # moduleConfig.l2Network.rpcUrl )
    => result = Ok("false")

\* Same chain id, another RPC URL, the containers exist: false.
C4_Witness ==
    /\ op = "isInstalled"
    /\ pc = "done"
    /\ ConfigFull
    /\ l2Network # NoNetwork
    /\ l2Network.chainId = moduleConfig.l2Network.chainId
    /\ l2Network.rpcUrl # moduleConfig.l2Network.rpcUrl
    /\ ComposeStatus # {}
    /\ calls = <<"getNodeInfo">>
    /\ result = Ok("false")

\* C5: when the config holds both keys and the resolved network equals the
\* stored one, isInstalled() answers true exactly when the orchestrator's
\* status lists at least one container of the stack.
C5_InstalledIffContainerListed ==
    ( /\ op = "isInstalled"
      /\ pc = "done"
      /\ result.kind = "ok"
      /\ ConfigFull
      /\ l2Network = moduleConfig.l2Network )
    => (result = Ok("true") <=> ComposeStatus # {})

\* After a clean the config is still complete and the network still matches,
\* yet isInstalled() answers false.
C5_Witness ==
    /\ op = "isInstalled"
    /\ pc = "done"
    /\ ConfigFull
    /\ l2Network = moduleConfig.l2Network
    /\ prev = "clean"
    /\ ComposeStatus = {}
    /\ calls = <<"getNodeInfo", "status">>
    /\ result = Ok("false")

\* C6: an isInstalled() that follows a successful install() answers true when
\* the network it resolves is the one the install stored, and false when the
\* network has changed.
C6_InstalledAfterInstall ==
    ( /\ op = "isInstalled"
      /\ pc = "done"
      /\ prev = "install"
      /\ result.kind = "ok" )
    => /\ l2Network # NoNetwork
       /\ result = Ok("true") <=> l2Network = moduleConfig.l2Network

\* The network changed after the install: false, with the containers there.
C6_Witness ==
    /\ op = "isInstalled"
    /\ pc = "done"
    /\ prev = "install"
    /\ atCall.cfg = moduleConfig
    /\ l2Network # NoNetwork
    /\ l2Network # moduleConfig.l2Network
    /\ \A s \in Services : containers[s] = "created"
    /\ result = Ok("false")

\* C7: update() first issues the teardown alone; when the teardown fails the
\* call throws having done nothing else and the config is unchanged; when it
\* succeeds the containers are gone and the install steps follow; the config
\* changes only when the install's last step returns, to the version and the
\* network this call resolved.
C7_UpdateCleansThenInstalls ==
    [][ (op = "update" /\ op' = "update") =>
          /\ pc = "up_down" => calls = <<"down">>
          /\ (pc = "up_down" /\ pc' = "done") =>
               /\ result'.kind = "throws"
               /\ calls' = <<"down">>
               /\ moduleConfig' = moduleConfig
               /\ containers' = containers
               /\ files' = files
          /\ (pc = "up_down" /\ pc' \notin {"up_down", "done"}) =>
               /\ pc' = "in_getNodeInfo"
               /\ calls' = <<"down", "getNodeInfo">>
               /\ \A s \in Services : containers'[s] = "absent"
               /\ moduleConfig' = moduleConfig
          /\ moduleConfig' # moduleConfig => (pc = "in_cp" /\ pc' = "done")
          /\ (pc = "in_cp" /\ pc' = "done" /\ result'.kind = "ok") =>
               /\ moduleConfig' = [version |-> version, l2Network |-> l2Network]
               /\ version = latestVersion
               /\ l2Network # NoNetwork
               /\ Last(calls') = "setModuleConfig"
      ]_vars

\* An update replaced both the stored version and the stored network.
C7_Witness ==
    /\ op = "update"
    /\ pc = "done"
    /\ result = Ok("void")
    /\ ~Falsy(atCall.cfg.version)
    /\ moduleConfig.version # atCall.cfg.version
    /\ moduleConfig.l2Network # atCall.cfg.l2Network
    /\ moduleConfig.l2Network = nodeInfoL2

\* C8: the stored version is always the version of the last successful
\* install (nothing before the first); no operation other than a successful
\* install changes the persisted config, none clears it; the version accessor
\* returns the stored version.
C8_OnlyInstallWritesConfig ==
    /\ moduleConfig.version = installed
    /\ moduleConfig # atCall.cfg =>
         (op \in {"install", "update"} /\ pc = "done" /\ result.kind = "ok")
    /\ moduleConfig # EmptyConfig => ConfigFull
    /\ (op = "version" /\ pc = "done") => result = Ok(installed)

\* The accessor returns the installed version after a clean removed every
\* container.
C8_Witness ==
    /\ op = "version"
    /\ pc = "done"
    /\ prev = "clean"
    /\ ComposeStatus = {}
    /\ installed # Undefined
    /\ result = Ok(installed)

C10_CachedVersionNeverRequeried ==
    ~Falsy(atCall.cached) =>
      /\ latestVersion = atCall.cached
      /\ ~Did(calls, "getLatestReleaseVersion")
      /\ pc # "lv_getLatestReleaseVersion"
      /\ pc # "in_getLatestReleaseVersion"
      /\ (op = "getLatestVersion" /\ pc = "done") => result = Ok(atCall.cached)
      /\ (op \in {"install", "update"} /\ ~Falsy(version)) => version = atCall.cached

\* getLatestVersion() answered from the cache, without a call, the version
\* cached before the remote published a newer release.
C10_Witness ==
    /\ op = "getLatestVersion"
    /\ pc = "done"
    /\ ~Falsy(atCall.cached)
    /\ Tag(remoteTag) # atCall.cached
    /\ calls = <<>>
    /\ result = Ok(atCall.cached)

StartsWith(str, prefix) ==
    Len(str) >= Len(prefix) /\ SubSeq(str, 1, Len(prefix)) = prefix

\* C11: waitForFullIndexing() returns normally only from the step in which
\* the node's answer arrived, and only when the block number the API gave in
\* this iteration equals the node's height; when both queries succeeded and
\* the two are equal it returns in that step, and it goes on to wait only when
\* they differ.  A failed API query never ends the loop.
C11_ReadyExactlyOnEqualHeights ==
    [][ (op = "start" /\ op' = "start") =>
          /\ (pc = "wt_blocks" /\ pc' = "wt_getNodeInfo") => apiLatestBlockNumber' = apiHeight
          /\ (pc # "done" /\ pc' = "done" /\ result'.kind = "ok") =>
               /\ pc = "wt_eth_blockNumber"
               /\ apiLatestBlockNumber = nodeHeight
          /\ (pc = "wt_eth_blockNumber" /\ pc' = "wt_sleep") =>
               apiLatestBlockNumber # nodeHeight
          /\ (pc = "wt_eth_blockNumber" /\ pc' = "done" /\ result'.kind = "throws") =>
               result'.err \in { ErrFailedBlockNumber(ErrFetch),
                                 ErrFailedBlockNumber(ErrUnexpectedResponse) }
          /\ (pc = "wt_blocks" /\ pc' # pc) => pc' \in {"wt_getNodeInfo", "wt_sleep"}
      ]_vars

\* start() returned after the API had caught up with a node at height 16
\* (0x10).
C11_Witness ==
    /\ op = "start"
    /\ pc = "done"
    /\ result = Ok("void")
    /\ nodeHeight = 16
    /\ apiHeight = 16

\* C12: a failed API query is never thrown: the loop goes to the timer
\* without a node query and then queries the API again, however often this
\* repeats; a failed node-descriptor or block-number query, or a block number
\* that does not parse, makes start() throw in that step, no query following.
C12_AsymmetricRetry ==
    [][ (op = "start" /\ op' = "start") =>
          /\ (pc = "wt_blocks" /\ pc' # pc) =>
               /\ pc' \in {"wt_getNodeInfo", "wt_sleep"}
               /\ result' = NoResult
               /\ pc' = "wt_sleep" => UNCHANGED << l2Network, apiLatestBlockNumber >>
          /\ (pc = "wt_sleep" /\ pc' # pc) => pc' = "wt_blocks"
          /\ (pc = "wt_getNodeInfo" /\ pc' # pc) =>
               \/ pc' = "wt_eth_blockNumber"
               \/ pc' = "done" /\ result' = Throws(ErrNodeInfo)
          /\ (pc = "wt_eth_blockNumber" /\ pc' # pc) =>
               \/ pc' = "wt_sleep"
               \/ pc' = "done" /\ result' = Ok("void")
               \/ /\ pc' = "done"
                  /\ result'.kind = "throws"
                  /\ StartsWith(result'.err,
                                <<"Failed to get latest block number from L2 node: ">>)
          /\ (pc = "done" /\ pc' = "done") => UNCHANGED << result, calls >>
      ]_vars

\* The API query failed before the node was ever asked, although the API
\* container runs and the heights agree; the loop waits to ask again.
C12_Witness ==
    /\ op = "start"
    /\ pc = "wt_sleep"
    /\ l2Network = NoNetwork
    /\ containers["api"] = "running"
    /\ apiHeight = nodeHeight
    /\ nodeHeight > 0

\* C13: whatever volumes the orchestrator holds, a start() (through
\* cleanupIndexedData) removes no volume other than the one named exactly
\* <project>_postgres: every other volume, also one whose name contains that
\* name, exists after every step.
C13_OnlyExactVolumeRemoved ==
    [][ /\ \A v \in volumes \ volumes' : v = fullDatabaseName
        /\ volumes' # volumes =>
             \/ op = "start" /\ pc = "st_volume_rm" /\ volumes' = volumes \ {fullDatabaseName}
             \/ op = "start" /\ pc = "st_up" /\ volumes' = volumes \cup {fullDatabaseName}
      ]_vars

\* The database volume was removed and the stack is about to be brought up;
\* the backup volume, whose name contains the computed name, and the other
\* project's volume are still there.
C13_Witness ==
    /\ op = "start"
    /\ pc = "st_up"
    /\ Did(calls, "volume rm")
    /\ fullDatabaseName \notin volumes
    /\ BackupVolume \in volumes
    /\ OtherVolume \in volumes

ErrWritingEnv(e) == <<"Error writing to .env file: ">> \o ErrorToString(e)

ErrWritingAppConfig(e) == <<"Error writing to app config file: ">> \o ErrorToString(e)

ErrCopyingAppConfig ==
    <<"Error while copying app config to the app container: ", "output">>

InstallThrew == op \in {"install", "update"} /\ pc = "done" /\ result.kind = "throws"

\* The errors the steps of install() raise themselves.
RaisedAt(step) ==
    CASE step = "getNodeInfo" -> {ErrNodeInfo}
      [] step = "getLatestReleaseVersion" -> {ErrRelease}
      [] step \in {"mkdir", "copyFile", "writeEnv", "writeAppConfig"} -> FsErrors
      [] step = "create" -> CreateErrors
      [] step = "cp" -> {ErrCommand}
      [] OTHER -> {ErrCommand}

\* C14 as stated: a failing install() hands the caller either the fixed
\* permission error, when provisioning the files failed for lack of
\* permission, or the very error the failing step raised.
C14_OriginalErrorUnchanged ==
    InstallThrew =>
      \/ /\ result.err = ErrNotEnoughPermissions
         /\ Last(calls) \in {"mkdir", "copyFile", "writeEnv", "writeAppConfig"}
      \/ /\ result.err \in RaisedAt(Last(calls))
         /\ result.err # ErrEPERM

\* C14 amended: the caller receives the fixed permission error exactly when
\* the text of the failure contains "operation not permitted", whichever step
\* raised it; otherwise a failed .env or runtime-config write arrives as a new
\* error that prefixes the text of the original, output of the copy command
\* arrives as a new error, and every other failure arrives unchanged.
C14_PermissionByTextElseWrappedOrUnchanged ==
    InstallThrew =>
      LET step == Last(calls)
          plain == {e \in RaisedAt(step) :
                      ~Includes(ErrorToString(e), <<"operation not permitted">>)}
      IN  /\ ~Includes(ErrorToString(result.err), <<"operation not permitted">>)
          /\ \/ /\ result.err = ErrNotEnoughPermissions
                /\ step \in {"mkdir", "copyFile", "writeEnv", "writeAppConfig", "create"}
             \/ /\ step = "writeEnv"
                /\ result.err \in {ErrWritingEnv(e) : e \in plain}
             \/ /\ step = "writeAppConfig"
                /\ result.err \in {ErrWritingAppConfig(e) : e \in plain}
             \/ /\ step = "cp"
                /\ result.err \in {ErrCommand, ErrCopyingAppConfig}
             \/ /\ step \notin {"writeEnv", "writeAppConfig", "cp"}
                /\ result.err \in plain

\* The disk was full when .env was written: the caller gets a new error
\* around the text of the original.
C14_Witness ==
    /\ op = "install"
    /\ pc = "done"
    /\ Last(calls) = "writeEnv"
    /\ result = Throws(ErrWritingEnv(ErrENOSPC))

\* The reference: pad the shorter sequence of integers with zeros, then the
\* sign of the difference at the first position where the two differ.
ReferenceCompare(a, b) ==
    LET n == Max(Len(a), Len(b))
        at(s, i) == IF i <= Len(s) THEN s[i] ELSE 0
        diff == {i \in 1 .. n : at(a, i) # at(b, i)}
    IN  IF diff = {} THEN 0
        ELSE LET first == CHOOSE i \in diff : \A j \in diff : i <= j
             IN  IF at(a, first) > at(b, first) THEN 1 ELSE -1

\* C15: for well-formed versions a and b, compareSemanticVersions(a, a) = 0
\* and compareSemanticVersions(a, b) = -compareSemanticVersions(b, a).
C15_CompareReflexiveAntisymmetric ==
    compared # NotCompared =>
      /\ compared = - compareSemanticVersions(VersionString(components2),
                                               VersionString(components1))
      /\ components1 = components2 => compared = 0
      /\ compareSemanticVersions(VersionString(components1),
                                  VersionString(components1)) = 0
      /\ compareSemanticVersions(VersionString(components2),
                                  VersionString(components2)) = 0

\* "1" against "1.1": -1, and 1 the other way round.
C15_Witness ==
    /\ components1 = <<1>>
    /\ components2 = <<1, 1>>
    /\ compared = -1
    /\ compareSemanticVersions(VersionString(components2), VersionString(components1)) = 1

\* C16: for well-formed versions, compareSemanticVersions returns the
\* reference result; "1.0" against "1.0.0" is 0, "1.2.3" against "1.2.10" is
\* -1 and "2.0.0" against "1.9.9" is 1.
C16_CompareMatchesReference ==
    compared # NotCompared =>
      /\ compared = ReferenceCompare(components1, components2)
      /\ (components1 = <<1, 0>> /\ components2 = <<1, 0, 0>>) => compared = 0
      /\ (components1 = <<1, 2, 3>> /\ components2 = <<1, 2, 10>>) => compared = -1
      /\ (components1 = <<2, 0, 0>> /\ components2 = <<1, 9, 9>>) => compared = 1

\* "1.2.3" was compared with "1.2.10": the numerically smaller.
C16_Witness ==
    /\ VersionString(components1) = <<"1", ".", "2", ".", "3">>
    /\ VersionString(components2) = <<"1", ".", "2", ".", "1", "0">>
    /\ compared = -1

\* External interactions (orchestrator or version-control commands, network
\* requests) issued and not yet returned; the one-second timer is none.
ExternalInFlight ==
    CASE pc \in {"idle", "done", "wt_sleep"} -> Cardinality(inflight)
      [] pc = "st_rm" -> Cardinality(inflight)
      [] OTHER -> 1 + Cardinality(inflight)

CleanupPcs == {"st_rm", "st_volume_ls", "st_volume_rm"}

WaitPcs == {"wt_blocks", "wt_getNodeInfo", "wt_eth_blockNumber", "wt_sleep"}

InstallSteps ==
    <<"getNodeInfo", "getLatestReleaseVersion", "mkdir", "copyFile", "writeEnv",
      "create", "writeAppConfig", "cp", "setModuleConfig">>

OptionalSteps == {"getLatestReleaseVersion", "mkdir"}

Without(skipped) == SelectSeq(InstallSteps, LAMBDA step : step \notin skipped)

InstallOrders == {Without(skipped) : skipped \in SUBSET OptionalSteps}

\* cs holds steps of install() in order, none left out before its last one.
InInstallOrder(cs) ==
    \E order \in InstallOrders :
      Len(cs) <= Len(order) /\ SubSeq(order, 1, Len(cs)) = cs

\* C19: install() goes through resolve network, resolve version, provision
\* the files, create the containers, inject the runtime config, write the
\* config, in this order, a step being taken only when every earlier one
\* succeeded; it starts no container: created from none, the containers all
\* exist and none runs when install() returns.
C19_InstallOrderNeverStarts ==
    [][ (op' = "install" /\ pc' # pc) =>
          /\ calls' # calls => InInstallOrder(calls')
          /\ (pc' = "done" /\ result'.kind = "throws") => Last(calls') # "setModuleConfig"
          /\ (pc' = "done" /\ pc # "done" /\ result'.kind = "ok") =>
               /\ Last(calls') = "setModuleConfig"
               /\ containers' = containers
               /\ \A s \in Services : containers'[s] # "absent"
          /\ \A s \in Services : containers'[s] = "running" => containers[s] = "running"
          /\ (pc = "in_create" /\ pc' = "in_cp" /\ ComposeStatus = {}) =>
               \A s \in Services : containers'[s] = "created"
      ]_vars

\* A first install went through every step; all containers exist, none runs.
C19_Witness ==
    /\ op = "install"
    /\ pc = "done"
    /\ result = Ok("void")
    /\ calls = InstallSteps
    /\ atCall.cfg = EmptyConfig
    /\ \A s \in Services : containers[s] = "created"

ResolverPcs == {"rv_fetchTags", "rv_revList", "rv_describe"}

\* C20: with an empty cache getLatestVersion() queries the remote, and
\* nothing else, exactly when there is no local clone; with a clone it
\* fetches the tags and then, whether the fetch succeeded or failed, resolves
\* the version from the clone, so that it fails only in that resolution.
C20_SourceByClone ==
    [][ (op' = "getLatestVersion" /\ pc' # pc) =>
          /\ (pc \in {"idle", "done"} /\ Falsy(latestVersion)) =>
               /\ ~repoCloned =>
                    (pc' = "lv_getLatestReleaseVersion"
                       /\ calls' = <<"getLatestReleaseVersion">>)
               /\ repoCloned => (pc' = "rv_fetchTags" /\ calls' = <<"fetchTags">>)
          /\ pc = "lv_getLatestReleaseVersion" =>
               (pc' = "done" /\ calls' = <<"getLatestReleaseVersion">>)
          /\ pc = "rv_fetchTags" =>
               /\ pc' = "rv_revList"
               /\ Last(calls') = "revList"
               /\ result' = NoResult
          /\ (pc \in ResolverPcs /\ pc' = "done" /\ result'.kind = "throws") =>
               pc \in {"rv_revList", "rv_describe"}
          /\ (pc \in ResolverPcs /\ pc' = "done" /\ result'.kind = "ok") =>
               /\ pc = "rv_describe"
               /\ result'.val = Join(localRepo)
               /\ latestVersion' = result'.val
      ]_vars

\* The tag fetch failed while the remote had a newer release; the version
\* came from the clone's older tag.
C20_Witness ==
    /\ op = "getLatestVersion"
    /\ pc = "done"
    /\ calls = <<"fetchTags", "warn", "revList", "describe">>
    /\ remoteTag = 2
    /\ result = Ok(Tag(1))
    /\ latestVersion = Tag(1)

ReleaseTags == {Tag(n) : n \in 1 .. NumReleases}

\* C21: getLatestVersionFromLocalRepo() throws, returning nothing, when the
\* commit lookup gives an empty hash, when the tag lookup gives an empty
\* name, and when the name does not start with "v", the error carrying what
\* was read; a value it returns is the non-empty name of the clone's latest
\* tag, which starts with "v".
C21_LocalRepoVersionWellFormed ==
    [][ (op' = "getLatestVersion" /\ pc' # pc) =>
          /\ (pc = "rv_revList" /\ localRepo = <<>>) =>
               /\ pc' = "done"
               /\ result' \in {Throws(ErrCommand), Throws(ErrParseHash)}
          /\ (pc = "rv_revList" /\ pc' = "done") => result'.kind = "throws"
          /\ (pc = "rv_describe" /\ (localRepo = <<>> \/ localRepo[1] # "v")) =>
               /\ pc' = "done"
               /\ result' \in {Throws(ErrCommand), Throws(ErrParseVersion),
                                Throws(ErrParseVersion \o localRepo)}
               /\ latestVersion' = latestVersion
          /\ (pc = "rv_describe" /\ result'.kind = "ok") =>
               /\ localRepo # <<>>
               /\ localRepo[1] = "v"
               /\ result'.val = Join(localRepo)
               /\ result'.val \in ReleaseTags
          /\ (pc = "rv_describe" /\ result'.kind = "throws") =>
               result'.err \in {ErrCommand, ErrParseVersion, ErrParseVersion \o localRepo}
      ]_vars

\* The clone's latest tag is "nightly": the lookup failed, naming it.
C21_Witness ==
    /\ op = "getLatestVersion"
    /\ pc = "done"
    /\ localRepo = NightlyTag
    /\ calls = <<"fetchTags", "warn", "revList", "describe">>
    /\ result = Throws(ErrParseVersion \o NightlyTag)
    /\ Falsy(latestVersion)

\* The port an RPC URL names after its host, "" when it names none.
PortSuffix(rpcUrl) ==
    IF Len(rpcUrl) >= 5 /\ rpcUrl[Len(rpcUrl) - 1] = ":" THEN rpcUrl[Len(rpcUrl)] ELSE ""

\* C22: the RPC_PORT that install() writes to .env is the port suffix of the
\* network's rpcUrl when the URL has one, and "3050" when it has none.
C22_RpcPortSuffixOrFallback ==
    (op = "install" /\ pc = "in_create") =>
        files.env.RPC_PORT =
            IF PortSuffix(l2Network.rpcUrl) # ""
              THEN PortSuffix(l2Network.rpcUrl)
              ELSE "3050"

\* C23: cleanupIndexedData() issues `docker volume rm` only when a listed
\* volume is named exactly <project>_postgres; when no listed volume has
\* that name, also when a listed name contains it, nothing is removed and
\* the cleanup does not fail.
C23_RemoveIssuedOnlyOnExactName ==
    [][ (op = "start" /\ pc \in {"st_volume_ls", "st_volume_rm"} /\ pc' # pc) =>
          /\ pc' = "st_volume_rm" => fullDatabaseName \in volumes
          /\ fullDatabaseName \notin volumes =>
               /\ pc' = "st_up"
               /\ ~Did(calls', "volume rm")
               /\ result'.kind # "throws"
      ]_vars

\* A query of the indexing API failed; one answered.
ApiQueryFails == pc = "wt_blocks" /\ pc' = "wt_sleep"

ApiQueryAnswers == pc = "wt_blocks" /\ pc' = "wt_getNodeInfo"

\* A query of the node failed.
NodeQueryFails ==
    /\ pc \in {"wt_getNodeInfo", "wt_eth_blockNumber"}
    /\ pc' = "done"
    /\ result'.kind = "throws"

InWaitLoop == op = "start" /\ pc \in WaitPcs

\* The errors a failed query of the node leaves waitForFullIndexing() with.
NodeQueryErrors ==
    {ErrNodeInfo, ErrFailedBlockNumber(ErrFetch), ErrFailedBlockNumber(ErrUnexpectedResponse)}

\* C24: with the loop's steps taken whenever they can be, if from some point
\* on no query of the API or of the node fails and both hold the same height,
\* waitForFullIndexing() ends, and ends by returning normally unless a query
\* of the node had failed; as long as no API query answers, the loop neither
\* returns nor throws, and if none answers from some point on it polls
\* forever unless it had ended: so it does from the call on when the API's
\* container is not running.
C24_WaitReturnsOrPollsForever ==
    /\ ( /\ <>[][~ApiQueryFails /\ ~NodeQueryFails]_vars
         /\ <>[](apiHeight = nodeHeight) )
         => <>( /\ op = "start"
                /\ pc = "done"
                /\ \/ result = Ok("void")
                   \/ result.kind = "throws" /\ result.err \in NodeQueryErrors )
    /\ [][ /\ (pc \in {"wt_blocks", "wt_sleep"} /\ ~ApiQueryAnswers)
               => (pc' \in {"wt_blocks", "wt_sleep"} /\ result' = NoResult)
           /\ (InWaitLoop /\ pc' = "done" /\ result'.kind = "throws") => NodeQueryFails
         ]_vars
    /\ <>[][~ApiQueryAnswers]_vars =>
         \/ <>(pc = "done")
         \/ <>[](pc \in {"wt_blocks", "wt_sleep"}) /\ []<>(pc = "wt_blocks")
    /\ [](containers["api"] # "running") =>
         /\ [](InWaitLoop /\ pc \in {"wt_blocks", "wt_sleep"} /\ result = NoResult)
         /\ []<>(pc = "wt_blocks")

\* The loop waited while the worker caught up with blocks mined after the
\* start, and returned on equal heights.
C24_Witness ==
    /\ op = "start"
    /\ pc = "done"
    /\ result = Ok("void")
    /\ apiHeight = nodeHeight
    /\ nodeHeight > PriorBlocks

\* The calls with which getLatestVersion() asks a source for the version.
SourceQueries == {"lv_getLatestReleaseVersion", "rv_fetchTags"}

\* C25: a getLatestVersion() that throws leaves the cache empty, and the call
\* after it asks the source again; the cache changes only when a resolution
\* returns, to the value returned, and when the process ends.
C25_CacheOnlyOnSuccess ==
    [][ /\ (op' = "getLatestVersion" /\ pc # "done" /\ pc' = "done"
             /\ result'.kind = "throws") =>
               (Falsy(latestVersion') /\ latestVersion' = latestVersion)
        /\ (Callable /\ op' = "getLatestVersion" /\ pc' \notin {"idle", "done"}) =>
               (Falsy(latestVersion) /\ pc' \in SourceQueries)
        /\ (Callable /\ op' = "getLatestVersion" /\ pc' = "done" /\ calls' = <<>>) =>
               (~Falsy(latestVersion) /\ result' = Ok(latestVersion))
        /\ latestVersion' # latestVersion =>
             \/ pc = "done" /\ pc' = "idle" /\ latestVersion' = Undefined
             \/ /\ pc \in {"lv_getLatestReleaseVersion", "rv_describe"}
                /\ pc' = "done"
                /\ result' = Ok(latestVersion')
                /\ latestVersion' \in ReleaseTags
      ]_vars

\* The call before this one threw and left the cache empty; this one asks
\* the remote again.
C25_Witness ==
    /\ op = "getLatestVersion"
    /\ pc \in SourceQueries
    /\ prev = "other"
    /\ Falsy(atCall.cached)
    /\ Falsy(latestVersion)

====
